---------------------------- MODULE Spec2Model ----------------------------
(***************************************************************************)
(* Model of pdf.py, the trading card print layout tool.                    *)
(*                                                                         *)
(* Numbers.  Python floats are modelled as exact fixed-point integers:     *)
(*   - a length in millimetres (every *_mm field of Config) and a number   *)
(*     decoded from a directory name are integers in thousandths (Milli);  *)
(*   - a length in points (everything handed to the canvas) is an integer  *)
(*     in units of 1/25400 pt, so that reportlab's mm = 72/25.4 points per *)
(*     millimetre is the integer factor 72 on a thousandth of a mm.        *)
(* None is the empty sequence <<>> and a present value v is <<v>>.         *)
(***************************************************************************)
EXTENDS Integers, Sequences, FiniteSets, TLC

VARIABLES
    pc,          \* position of the running function
    args,        \* argparse namespace of main()
    config,      \* the Config object
    source,      \* process_image: the image file being processed
    card_img,    \* process_image: the resized card image
    bleed_img,   \* process_image: the bleed canvas
    step,        \* process_image: number of paste calls made so far
    writes,      \* history: how many paste calls have written each bleed pixel
    ret,         \* process_image: the returned value
    page_width,  \* PDFGenerator.page_width, in points
    page_height, \* PDFGenerator.page_height, in points
    folder,      \* the input directory: file name -> file
    images,      \* generate_pdf: the list find_images returned
    layout,      \* generate_pdf: the Layout
    page,        \* generate_pdf: the outer loop's index
    i,           \* generate_pdf: the inner loop's index
    canvas,      \* the reportlab Canvas: None until constructed
    log          \* history: each process_image call of generate_pdf, in call
                 \* order: the image, the number of pages ended before it, and
                 \* the row and column the loop computed for it

imgVars == <<source, card_img, bleed_img, step, writes, ret>>
genVars == <<page_width, page_height, folder, images, layout, page, i, canvas, log>>
vars == <<pc, args, config, imgVars, genVars>>

None == <<>>
Some(v) == <<v>>
Val(o) == o[1]

(***************************************************************************)
(* Config                                                                  *)
(***************************************************************************)

\* One unit of a float field, in thousandths.
Milli == 1000

\* a * b for two fixed-point numbers
FMul(a, b) == (a * b) \div Milli

inch_to_mm == 25400

\* The dataclass defaults of Config (the fields the model reads).
ConfigDefaults ==
    [card_width_mm  |-> 63000,
     card_height_mm |-> 88000,
     bleed_mm       |-> 3175,
     spacing_mm     |-> 0,
     margin_mm      |-> 0,
     dpi            |-> 1200,
     grid_cols      |-> 3,
     grid_rows      |-> 3,
     marker_distance_mm |-> 10000]

\* Config(**overrides): overrides is a function from field names to values.
Config(overrides) ==
    [f \in DOMAIN ConfigDefaults |->
        IF f \in DOMAIN overrides THEN overrides[f] ELSE ConfigDefaults[f]]

\* re.match(r'^b(\d+(?:\.\d+)?)_m(\d+(?:\.\d+)?)_(.+)$', folder_name): a folder
\* name is either of that shape, carrying its two decimal numbers, or not.
Match(folder_name) == folder_name.kind = "pattern"

\* Config.from_directory_name(folder_path, **overrides)
from_directory_name(folder_name, overrides) ==
    LET cfg == Config(overrides)
        bleed_val == folder_name.bleed
        margin_val == folder_name.margin
    IN  IF ~Match(folder_name) THEN cfg
        ELSE IF bleed_val < Milli
             THEN [cfg EXCEPT !.bleed_mm = FMul(bleed_val, inch_to_mm),
                              !.margin_mm = FMul(margin_val, inch_to_mm)]
             ELSE [cfg EXCEPT !.bleed_mm = bleed_val,
                              !.margin_mm = margin_val]

(***************************************************************************)
(* main(): validation and construction of the configuration                *)
(***************************************************************************)

\* The overrides dictionary main() builds from the parsed arguments.
Overrides(a) ==
    LET base == [card_width_mm  |-> a.card_w_mm,
                 card_height_mm |-> a.card_h_mm,
                 spacing_mm     |-> a.card_spacing_mm,
                 dpi            |-> a.dpi]
        b == IF a.bleed_mm # None THEN ("bleed_mm" :> Val(a.bleed_mm)) @@ base ELSE base
    IN  IF a.margin_mm # None THEN ("margin_mm" :> Val(a.margin_mm)) @@ b ELSE b

\* The two validation loops of main().
ArgsValid(a) ==
    /\ a.card_w_mm > 0 /\ a.card_h_mm > 0 /\ a.dpi > 0
    /\ \A o \in {a.bleed_mm, a.margin_mm, Some(a.card_spacing_mm)} :
          ~(o # None /\ Val(o) < 0)

\* sys.exit(1) out of a validation loop
MainReject ==
    /\ pc = "main"
    /\ ~ArgsValid(args)
    /\ pc' = "exit1"
    /\ UNCHANGED <<args, config, imgVars, genVars>>

\* --no-auto-detect: Config(**overrides), then the two defaults
MainConfigNoAuto ==
    /\ pc = "main"
    /\ ArgsValid(args)
    /\ args.no_auto_detect
    /\ LET c0 == Config(Overrides(args))
           c1 == IF args.bleed_mm = None THEN [c0 EXCEPT !.bleed_mm = 3175] ELSE c0
           c2 == IF args.margin_mm = None THEN [c1 EXCEPT !.margin_mm = 0] ELSE c1
       IN  config' = Some(c2)
    /\ pc' = "configured"
    /\ UNCHANGED <<args, imgVars, genVars>>

\* auto-detection: Config.from_directory_name(args.folder_path, **overrides)
MainConfigAuto ==
    /\ pc = "main"
    /\ ArgsValid(args)
    /\ ~args.no_auto_detect
    /\ config' = Some(from_directory_name(args.folder_name, Overrides(args)))
    /\ pc' = "configured"
    /\ UNCHANGED <<args, imgVars, genVars>>

\* Decimal numbers a directory name carries, in thousandths.
DirValues == {0, 125, 250, 500, 995, 1000, 2000}

FolderNames ==
    {[kind |-> "plain", bleed |-> 0, margin |-> 0]}
    \cup [kind : {"pattern"}, bleed : DirValues, margin : DirValues]

\* Command lines: --bleed-mm / --margin-mm absent or given, sizes valid or not.
ArgsSet ==
    [folder_name : FolderNames,
     card_w_mm : {63000, 0},
     card_h_mm : {88000},
     dpi : {1200},
     card_spacing_mm : {0, -1000},
     bleed_mm : {None, Some(-1000), Some(0), Some(2000), Some(5000)},
     margin_mm : {None, Some(0), Some(3000)},
     no_auto_detect : BOOLEAN]

\* The variables of process_image before it is called.
ImgIdle ==
    /\ source = None /\ card_img = None /\ bleed_img = None
    /\ step = 0 /\ writes = None /\ ret = None

\* The variables of generate_pdf before a PDFGenerator exists.
GenIdle ==
    /\ page_width = 0 /\ page_height = 0 /\ folder = <<>>
    /\ images = <<>> /\ layout = None /\ page = 0 /\ i = 0
    /\ canvas = None /\ log = <<>>

InitMain ==
    /\ pc = "main"
    /\ args \in ArgsSet
    /\ config = None
    /\ ImgIdle
    /\ GenIdle

NextMain == MainReject \/ MainConfigNoAuto \/ MainConfigAuto

SpecMain == InitMain /\ [][NextMain]_vars

(***************************************************************************)
(* PIL images: a size and a pixel for every coordinate (x, y), x to the    *)
(* right and y downwards from the top-left corner.                         *)
(***************************************************************************)

Coords(w, h) == (0 .. w - 1) \X (0 .. h - 1)

\* Image.new('RGB', (w, h)): every pixel black (0)
ImageNew(w, h) == [w |-> w, h |-> h, px |-> [p \in Coords(w, h) |-> 0]]

\* img.crop((left, upper, right, lower)); pixels outside img are black
Crop(img, left, upper, right, lower) ==
    [w |-> right - left, h |-> lower - upper,
     px |-> [p \in Coords(right - left, lower - upper) |->
                LET q == <<p[1] + left, p[2] + upper>>
                IN  IF q \in DOMAIN img.px THEN img.px[q] ELSE 0]]

\* img.transpose(Image.FLIP_LEFT_RIGHT)
FLIP_LEFT_RIGHT(img) ==
    [img EXCEPT !.px = [p \in DOMAIN img.px |-> img.px[<<img.w - 1 - p[1], p[2]>>]]]

\* img.transpose(Image.FLIP_TOP_BOTTOM)
FLIP_TOP_BOTTOM(img) ==
    [img EXCEPT !.px = [p \in DOMAIN img.px |-> img.px[<<p[1], img.h - 1 - p[2]>>]]]

\* The pixels of dst that dst.paste(im, (x, y)) writes.
PasteBox(dst, im, x, y) ==
    {p \in DOMAIN dst.px : /\ x <= p[1] /\ p[1] < x + im.w
                           /\ y <= p[2] /\ p[2] < y + im.h}

\* dst.paste(im, (x, y))
Paste(dst, im, x, y) ==
    [dst EXCEPT !.px = [p \in DOMAIN dst.px |->
        IF p \in PasteBox(dst, im, x, y) THEN im.px[<<p[1] - x, p[2] - y>>]
        ELSE dst.px[p]]]

(***************************************************************************)
(* PDFGenerator.process_image                                              *)
(***************************************************************************)

\* int(mm_val * dpi / inch_to_mm) for a length >= 0
ToPx(mm_val, dpi) == (mm_val * dpi) \div inch_to_mm

card_w == ToPx(Val(config).card_width_mm, Val(config).dpi)
card_h == ToPx(Val(config).card_height_mm, Val(config).dpi)
bleed_px == ToPx(Val(config).bleed_mm, Val(config).dpi)
bleed_w == card_w + 2 * bleed_px
bleed_h == card_h + 2 * bleed_px

\* The decoded, converted and resized image: the model's two test pictures.
Resized(pattern, w, h) ==
    [w |-> w, h |-> h,
     px |-> [p \in Coords(w, h) |->
                IF pattern = "unique" THEN 1 + p[1] + w * p[2]
                ELSE 1 + ((p[1] + p[2]) % 2)]]

\* The nine paste calls, in the order of the code: what is pasted, and where.
CenterPaste(c) ==
    [im |-> c, x |-> bleed_px, y |-> bleed_px]
LeftPaste(c) ==
    [im |-> FLIP_LEFT_RIGHT(Crop(c, 0, 0, bleed_px, card_h)),
     x |-> 0, y |-> bleed_px]
\* Mutant of RightPaste: the strip pasted at the card's own right edge.
RightPasteInside(c) ==
    [im |-> FLIP_LEFT_RIGHT(Crop(c, card_w - bleed_px, 0, card_w, card_h)),
     x |-> card_w, y |-> bleed_px]
RightPaste(c) ==
    [im |-> FLIP_LEFT_RIGHT(Crop(c, card_w - bleed_px, 0, card_w, card_h)),
     x |-> bleed_px + card_w, y |-> bleed_px]
TopPaste(c) ==
    [im |-> FLIP_TOP_BOTTOM(Crop(c, 0, 0, card_w, bleed_px)),
     x |-> bleed_px, y |-> 0]
BottomPaste(c) ==
    [im |-> FLIP_TOP_BOTTOM(Crop(c, 0, card_h - bleed_px, card_w, card_h)),
     x |-> bleed_px, y |-> bleed_px + card_h]
TopLeftPaste(c) ==
    [im |-> FLIP_TOP_BOTTOM(FLIP_LEFT_RIGHT(Crop(c, 0, 0, bleed_px, bleed_px))),
     x |-> 0, y |-> 0]
\* Mutant of TopRightPaste: the corner flipped left-right only.
TopRightPasteOneFlip(c) ==
    [im |-> FLIP_LEFT_RIGHT(Crop(c, card_w - bleed_px, 0, card_w, bleed_px)),
     x |-> bleed_px + card_w, y |-> 0]
TopRightPaste(c) ==
    [im |-> FLIP_TOP_BOTTOM(FLIP_LEFT_RIGHT(
                Crop(c, card_w - bleed_px, 0, card_w, bleed_px))),
     x |-> bleed_px + card_w, y |-> 0]
BottomLeftPaste(c) ==
    [im |-> FLIP_TOP_BOTTOM(FLIP_LEFT_RIGHT(
                Crop(c, 0, card_h - bleed_px, bleed_px, card_h))),
     x |-> 0, y |-> bleed_px + card_h]
BottomRightPaste(c) ==
    [im |-> FLIP_TOP_BOTTOM(FLIP_LEFT_RIGHT(
                Crop(c, card_w - bleed_px, card_h - bleed_px, card_w, card_h))),
     x |-> bleed_px + card_w, y |-> bleed_px + card_h]

Pastes(c) ==
    <<CenterPaste(c), LeftPaste(c), RightPaste(c), TopPaste(c), BottomPaste(c),
      TopLeftPaste(c), TopRightPaste(c), BottomLeftPaste(c), BottomRightPaste(c)>>

\* Image.open, convert, resize and Image.new succeed.
ProcessOpen ==
    /\ pc = "process_image"
    /\ Val(source).readable
    /\ card_img' = Some(Resized(Val(source).pattern, card_w, card_h))
    /\ bleed_img' = Some(ImageNew(bleed_w, bleed_h))
    /\ writes' = Some([p \in Coords(bleed_w, bleed_h) |-> 0])
    /\ pc' = "paste"
    /\ UNCHANGED <<args, config, source, step, ret, genVars>>

\* Image.open or the decoder raises IOError/OSError: except -> return None
ProcessFail ==
    /\ pc = "process_image"
    /\ ~Val(source).readable
    /\ ret' = None
    /\ pc' = "returned"
    /\ UNCHANGED <<args, config, source, card_img, bleed_img, step, writes, genVars>>

\* the next bleed_img.paste(...) call
ProcessPaste ==
    /\ pc = "paste"
    /\ step < Len(Pastes(Val(card_img)))
    /\ LET op == Pastes(Val(card_img))[step + 1]
           box == PasteBox(Val(bleed_img), op.im, op.x, op.y)
       IN  /\ bleed_img' = Some(Paste(Val(bleed_img), op.im, op.x, op.y))
           /\ writes' = Some([p \in DOMAIN Val(writes) |->
                                Val(writes)[p] + IF p \in box THEN 1 ELSE 0])
    /\ step' = step + 1
    /\ UNCHANGED <<pc, args, config, source, card_img, ret, genVars>>

\* return (bleed_img, card_img)
ProcessReturn ==
    /\ pc = "paste"
    /\ step = Len(Pastes(Val(card_img)))
    /\ ret' = Some(<<Val(bleed_img), Val(card_img)>>)
    /\ pc' = "returned"
    /\ UNCHANGED <<args, config, source, card_img, bleed_img, step, writes, genVars>>

\* Bounds of the pictures: card sides in whole inches, bleed in half inches.
MaxCardIn == 2
MaxDpi == 2
MaxBleedHalfIn == 3

ImageConfigs ==
    {Config([card_width_mm  |-> kw * inch_to_mm,
             card_height_mm |-> kh * inch_to_mm,
             bleed_mm       |-> (b * inch_to_mm) \div 2,
             dpi            |-> d]) :
        kw \in 1 .. MaxCardIn, kh \in 1 .. MaxCardIn,
        b \in 0 .. MaxBleedHalfIn, d \in 1 .. MaxDpi}

Sources == [readable : {TRUE}, pattern : {"unique", "checker"}]
           \cup [readable : {FALSE}, pattern : {"unique"}]

InitImage ==
    /\ pc = "process_image"
    /\ args = None
    /\ config \in {Some(c) : c \in ImageConfigs}
    /\ source \in {Some(s) : s \in Sources}
    /\ card_img = None /\ bleed_img = None
    /\ step = 0 /\ writes = None /\ ret = None
    /\ GenIdle

NextImage == ProcessOpen \/ ProcessFail \/ ProcessPaste \/ ProcessReturn

SpecImage == InitImage /\ [][NextImage]_vars

(***************************************************************************)
(* PDFGenerator: units, layout, guides                                     *)
(***************************************************************************)

\* reportlab.lib.units.mm (72 / 25.4 points), in the model's units
mm == 72

mm_to_points(mm_val) == mm_val * mm

\* reportlab.lib.pagesizes.A4 == (210 * mm, 297 * mm)
A4 == <<mm_to_points(210000), mm_to_points(297000)>>

\* calculate_layout.  center_x = (page_w_mm - grid_w) / 2 may fall between two
\* thousandths; its conversion to points is exact, so the halving is done on
\* the points.
calculate_layout(cfg, pw, ph) ==
    LET placed_w == cfg.card_width_mm + 2 * cfg.bleed_mm
        placed_h == cfg.card_height_mm + 2 * cfg.bleed_mm
        grid_w == cfg.grid_cols * placed_w + (cfg.grid_cols - 1) * cfg.spacing_mm
        grid_h == cfg.grid_rows * placed_h + (cfg.grid_rows - 1) * cfg.spacing_mm
        page_w_mm == pw \div mm
        page_h_mm == ph \div mm
    IN  [start_x       |-> mm_to_points(page_w_mm - grid_w) \div 2,
         start_y       |-> mm_to_points(page_h_mm - grid_h) \div 2,
         card_width    |-> mm_to_points(cfg.card_width_mm),
         card_height   |-> mm_to_points(cfg.card_height_mm),
         placed_width  |-> mm_to_points(placed_w),
         placed_height |-> mm_to_points(placed_h)]

\* The cutting guide lines of draw_guides.
GuideLines(cfg, lay, pw, ph) ==
    LET spacing == mm_to_points(cfg.spacing_mm)
    IN  {[x1 |-> lay.start_x + col * (lay.placed_width + spacing), y1 |-> 0,
          x2 |-> lay.start_x + col * (lay.placed_width + spacing), y2 |-> ph] :
            col \in 1 .. cfg.grid_cols - 1}
        \cup
        {[x1 |-> 0,  y1 |-> lay.start_y + row * (lay.placed_height + spacing),
          x2 |-> pw, y2 |-> lay.start_y + row * (lay.placed_height + spacing)] :
            row \in 1 .. cfg.grid_rows - 1}

\* The alignment markers draw_guides draws for the cell (row, col).
CellMarkers(cfg, lay, pw, row, col) ==
    LET spacing == mm_to_points(cfg.spacing_mm)
        marker_dist == mm_to_points(cfg.marker_distance_mm)
        card_x == lay.start_x + col * (lay.placed_width + spacing)
        card_y == lay.start_y + row * (lay.placed_height + spacing)
        left_x == card_x - marker_dist
        right_x == card_x + lay.placed_width + marker_dist
        top_y == card_y + lay.placed_height
        bottom_y == card_y
    IN  (IF left_x > 0
         THEN {[x |-> left_x, y |-> top_y, color |-> "left_marker_color"],
               [x |-> left_x, y |-> bottom_y, color |-> "left_marker_color"]}
         ELSE {})
        \cup
        (IF right_x < pw
         THEN {[x |-> right_x, y |-> top_y, color |-> "right_marker_color"],
               [x |-> right_x, y |-> bottom_y, color |-> "right_marker_color"]}
         ELSE {})

\* draw_guides: what one call adds to the current page
draw_guides(cfg, lay, pw, ph) ==
    [lines   |-> GuideLines(cfg, lay, pw, ph),
     markers |-> UNION {CellMarkers(cfg, lay, pw, row, col) :
                          row \in 0 .. cfg.grid_rows - 1,
                          col \in 0 .. cfg.grid_cols - 1}]

(***************************************************************************)
(* The reportlab canvas: the page being drawn, the finished pages, and     *)
(* whether the document has been written to output_path.                   *)
(***************************************************************************)

BlankPage == [images |-> <<>>, lines |-> {}, markers |-> {}, code |-> FALSE]

\* canvas.Canvas(output_path, pagesize=A4): nothing is written yet
CanvasNew == [cur |-> BlankPage, doc |-> <<>>, saved |-> FALSE]

\* Canvas.showPage()
showPage(cv) == [cv EXCEPT !.doc = Append(cv.doc, cv.cur), !.cur = BlankPage]

\* Canvas.save(): a page holding drawing code is ended first
save(cv) ==
    LET ended == IF cv.cur.code THEN showPage(cv) ELSE cv
    IN  [ended EXCEPT !.saved = TRUE]

\* draw_card_with_bleed: the two drawImage calls
draw_card_with_bleed(cv, cfg, img, x, y, lay) ==
    LET bleed == mm_to_points(cfg.bleed_mm)
    IN  [cv EXCEPT
          !.cur.images = @ \o
            <<[what |-> "bleed_img", img |-> img, x |-> x, y |-> y,
               width |-> lay.placed_width, height |-> lay.placed_height],
              [what |-> "card_img", img |-> img, x |-> x + bleed, y |-> y + bleed,
               width |-> lay.card_width, height |-> lay.card_height]>>,
          !.cur.code = TRUE]

(***************************************************************************)
(* PDFGenerator.find_images and generate_pdf                               *)
(***************************************************************************)

supported_extensions == {".png", ".jpg", ".jpeg", ".tiff", ".webp"}

\* ext.upper() of the supported extensions
UpperExtensions == {".PNG", ".JPG", ".JPEG", ".TIFF", ".WEBP"}

\* the files the two glob patterns of an extension match
Globbed(fld) ==
    {n \in DOMAIN fld : fld[n].ext \in supported_extensions \cup UpperExtensions}

\* sorted(...): file names are numbers, ordered as their path strings are
RECURSIVE Sorted(_)
Sorted(S) ==
    IF S = {} THEN <<>>
    ELSE LET least == CHOOSE n \in S : \A o \in S : n <= o
         IN  <<least>> \o Sorted(S \ {least})

\* Mutant of find_images: the glob results left in descending order.
RECURSIVE Descending(_)
Descending(S) ==
    IF S = {} THEN <<>>
    ELSE LET most == CHOOSE n \in S : \A o \in S : o <= n
         IN  <<most>> \o Descending(S \ {most})
find_images_unsorted(fld) == Descending(Globbed(fld))

find_images(fld) == Sorted(Globbed(fld))

cards_per_page == Val(config).grid_cols * Val(config).grid_rows

\* Mutant of pages: the page count taken from the readable images only.
pages_of_readable ==
    (Cardinality({n \in DOMAIN folder : n \in Globbed(folder) /\ folder[n].readable})
        + cards_per_page - 1) \div cards_per_page

pages == (Len(images) + cards_per_page - 1) \div cards_per_page

\* images[start_idx:start_idx + cards_per_page] of the current page
page_images ==
    LET start_idx == page * cards_per_page
    IN  SubSeq(images, start_idx + 1,
               IF start_idx + cards_per_page < Len(images)
               THEN start_idx + cards_per_page ELSE Len(images))

\* The x of the inner loop for column col.
CellX(cfg, lay, col) ==
    lay.start_x + col * (lay.placed_width + mm_to_points(cfg.spacing_mm))

\* Mutant of CellY: rows counted upwards from the bottom of the grid.
CellYBottomUp(cfg, lay, row) ==
    lay.start_y + row * (lay.placed_height + mm_to_points(cfg.spacing_mm))

\* The y of the inner loop for row row.
CellY(cfg, lay, row) ==
    lay.start_y + (cfg.grid_rows - 1 - row)
                    * (lay.placed_height + mm_to_points(cfg.spacing_mm))

\* if not images: raise FileNotFoundError
GenNoImages ==
    /\ pc = "generate_pdf"
    /\ find_images(folder) = <<>>
    /\ pc' = "raised"
    /\ UNCHANGED <<args, config, imgVars, genVars>>

\* Mutant of GenBegin: the canvas opened without the check for no images.
GenBeginUnchecked ==
    /\ pc = "generate_pdf"
    /\ images' = find_images(folder)
    /\ layout' = Some(calculate_layout(Val(config), page_width, page_height))
    /\ canvas' = Some(CanvasNew)
    /\ page' = 0
    /\ i' = 0
    /\ pc' = "pages"
    /\ UNCHANGED <<args, config, imgVars, page_width, page_height, folder, log>>

\* find_images, calculate_layout, canvas.Canvas(...).  embed_icc_profile
\* draws nothing and swallows its own errors: it leaves the pages as they are.
GenBegin ==
    /\ pc = "generate_pdf"
    /\ find_images(folder) # <<>>
    /\ images' = find_images(folder)
    /\ layout' = Some(calculate_layout(Val(config), page_width, page_height))
    /\ canvas' = Some(CanvasNew)
    /\ page' = 0
    /\ i' = 0
    /\ pc' = "pages"
    /\ UNCHANGED <<args, config, imgVars, page_width, page_height, folder, log>>

\* one pass of the inner loop: process_image, and draw_card_with_bleed
\* unless it returned None (as it does for a file that cannot be read; the
\* pictures it returns otherwise are those of SpecImage)
GenCard ==
    /\ pc = "pages"
    /\ page < pages
    /\ i < Len(page_images)
    /\ LET img_path == page_images[i + 1]
           row == i \div Val(config).grid_cols
           col == i % Val(config).grid_cols
           x == CellX(Val(config), Val(layout), col)
           y == CellY(Val(config), Val(layout), row)
       IN  /\ log' = Append(log, [img |-> img_path, sheet |-> Len(Val(canvas).doc),
                                   row |-> row, col |-> col])
           /\ \/ /\ folder[img_path].readable
                 /\ canvas' = Some(draw_card_with_bleed(
                                  Val(canvas), Val(config), img_path, x, y, Val(layout)))
              \/ /\ ~folder[img_path].readable
                 /\ canvas' = canvas
    /\ i' = i + 1
    /\ UNCHANGED <<pc, args, config, imgVars, page_width, page_height, folder,
                   images, layout, page>>

\* the end of a pass of the outer loop: draw_guides, and showPage unless it
\* was the last page
GenGuides ==
    /\ pc = "pages"
    /\ page < pages
    /\ i = Len(page_images)
    /\ LET g == draw_guides(Val(config), Val(layout), page_width, page_height)
           drawn == [Val(canvas) EXCEPT !.cur.lines = @ \cup g.lines,
                                        !.cur.markers = @ \cup g.markers,
                                        !.cur.code = TRUE]
       IN  canvas' = Some(IF page < pages - 1 THEN showPage(drawn) ELSE drawn)
    /\ page' = page + 1
    /\ i' = 0
    /\ UNCHANGED <<pc, args, config, imgVars, page_width, page_height, folder,
                   images, layout, log>>

\* canvas_obj.save(); return output_path
GenSave ==
    /\ pc = "pages"
    /\ page = pages
    /\ canvas' = Some(save(Val(canvas)))
    /\ pc' = "done"
    /\ UNCHANGED <<args, config, imgVars, page_width, page_height, folder,
                   images, layout, page, i, log>>

\* main(): except Exception -> print the error, sys.exit(1)
MainExcept ==
    /\ pc = "raised"
    /\ pc' = "exit1"
    /\ UNCHANGED <<args, config, imgVars, genVars>>

\* Bounds of the generate_pdf runs.
MaxCols == 3
MaxRows == 3
MaxSmallGrid == 2
MaxFiles == 4

\* The page of the layout example: 1000 mm square.
SquarePage == <<mm_to_points(1000000), mm_to_points(1000000)>>

\* Files a folder may hold.
GoodCard == [ext |-> ".png", readable |-> TRUE, stem |-> "card"]
CorruptCard == [ext |-> ".JPG", readable |-> FALSE, stem |-> "card"]
TextFile == [ext |-> ".txt", readable |-> TRUE, stem |-> "notes"]
CardBack == [ext |-> ".png", readable |-> TRUE, stem |-> "cardback"]

\* Folders of at most MaxFiles files, at most one of them the back design.
Folders ==
    {f \in UNION {[D -> {GoodCard, CorruptCard, TextFile, CardBack}] :
                    D \in SUBSET (1 .. MaxFiles)} :
        Cardinality({n \in DOMAIN f : f[n] = CardBack}) <= 1}

\* Configurations of every grid up to MaxCols x MaxRows.
LayoutConfigs ==
    {Config([card_width_mm |-> cw, card_height_mm |-> ch, bleed_mm |-> b,
             spacing_mm |-> s, grid_cols |-> c, grid_rows |-> r]) :
        cw \in {63000, 100000}, ch \in {88000, 100000, 120000},
        b \in {0, 3175}, s \in {0, 2000},
        c \in 1 .. MaxCols, r \in 1 .. MaxRows}

\* The default card on small grids.
SmallGridConfigs ==
    {Config([grid_cols |-> c, grid_rows |-> r]) :
        c \in 1 .. MaxSmallGrid, r \in 1 .. MaxSmallGrid}
    \cup {ConfigDefaults}

\* A run of generate_pdf: either any layout on one full page of good cards,
\* or the default card, on a small grid or the default one, over any folder.
InitGen ==
    /\ pc = "generate_pdf"
    /\ args = None
    /\ ImgIdle
    /\ images = <<>> /\ layout = None /\ page = 0 /\ i = 0
    /\ canvas = None /\ log = <<>>
    /\ \/ /\ config \in {Some(c) : c \in LayoutConfigs}
          /\ \E size \in {A4, SquarePage} :
                page_width = size[1] /\ page_height = size[2]
          /\ folder = [n \in 1 .. cards_per_page |-> GoodCard]
       \/ /\ config \in {Some(c) : c \in SmallGridConfigs}
          /\ page_width = A4[1] /\ page_height = A4[2]
          /\ folder \in Folders

NextGen == GenNoImages \/ GenBegin \/ GenCard \/ GenGuides \/ GenSave \/ MainExcept

SpecGen == InitGen /\ [][NextGen]_vars

(***************************************************************************)
(* Claims about main() and Config.from_directory_name, under SpecMain      *)
(***************************************************************************)

AutoDetected ==
    /\ pc = "configured"
    /\ ~args.no_auto_detect
    /\ Match(args.folder_name)

\* C1: when the folder name matches the pattern and --bleed-mm and/or
\* --margin-mm is given with auto-detection enabled, the configuration holds
\* the command-line values, not the values of the folder name.
C1_CommandLineWins ==
    AutoDetected =>
        /\ args.bleed_mm # None => Val(config).bleed_mm = Val(args.bleed_mm)
        /\ args.margin_mm # None => Val(config).margin_mm = Val(args.margin_mm)

\* A number of a folder name on its own: inches below 1.0, else millimetres.
Decoded(v) == IF v < Milli THEN (v * 254) \div 10 ELSE v

\* C2: for a matching folder name (and no command-line value), bleed and
\* margin are each decoded on their own: below 1.0 inches times 25.4, from
\* 1.0 millimetres unchanged.
C2_EachValueDecoded ==
    (AutoDetected /\ args.bleed_mm = None /\ args.margin_mm = None) =>
        /\ Val(config).bleed_mm = Decoded(args.folder_name.bleed)
        /\ Val(config).margin_mm = Decoded(args.folder_name.margin)

(***************************************************************************)
(* Claims about process_image, under SpecImage                             *)
(***************************************************************************)

\* The card coordinate a bleed coordinate t - bleedPx reflects to.
Reflect(t, n) ==
    IF t < 0 THEN -1 - t ELSE IF t < n THEN t ELSE 2 * n - 1 - t

BleedFits(c, b) == 1 <= b /\ b <= c.w /\ b <= c.h

\* C9: for 1 <= bleedPx <= min(cardW, cardH), the returned bleed canvas has
\* size (cardW + 2 bleedPx) x (cardH + 2 bleedPx) and each of its pixels (x, y)
\* equals the card pixel at (r(x - bleedPx, cardW), r(y - bleedPx, cardH)).
C9_BleedIsReflection ==
    (pc = "returned" /\ ret # None) =>
        LET bleed == Val(ret)[1]
            card == Val(ret)[2]
            b == (bleed.w - card.w) \div 2
        IN  /\ bleed.w = card.w + 2 * bleed_px
            /\ bleed.h = card.h + 2 * bleed_px
            /\ DOMAIN bleed.px = Coords(bleed.w, bleed.h)
            /\ BleedFits(card, bleed_px) =>
                  \A p \in DOMAIN bleed.px :
                     bleed.px[p] = card.px[<<Reflect(p[1] - b, card.w),
                                             Reflect(p[2] - b, card.h)>>]

\* C9's case: a picture of distinct pixels with a bleed of two pixels or more
\* has been returned.
C9_Witness ==
    /\ pc = "returned" /\ ret # None
    /\ Val(source).pattern = "unique"
    /\ BleedFits(Val(ret)[2], bleed_px) /\ bleed_px >= 2

\* C10: the nine paste calls write pairwise disjoint rectangles that together
\* cover the bleed canvas: no pixel is ever written twice, and after the ninth
\* call every pixel has been written exactly once.
C10_EachPixelWrittenOnce ==
    writes # None =>
        /\ DOMAIN Val(writes) = Coords(card_w + 2 * bleed_px, card_h + 2 * bleed_px)
        /\ \A p \in DOMAIN Val(writes) : Val(writes)[p] <= 1
        /\ step = 9 => \A p \in DOMAIN Val(writes) : Val(writes)[p] = 1

\* C10's case: all nine pastes of a canvas with a bleed have been made.
C10_Witness ==
    /\ writes # None /\ step = 9 /\ bleed_px >= 1
    /\ Cardinality(DOMAIN Val(writes)) > card_w * card_h

(***************************************************************************)
(* Claims about generate_pdf, under SpecGen                                *)
(***************************************************************************)

Cols == Val(config).grid_cols
Rows == Val(config).grid_rows

\* The pages of the document so far: the ended ones, then the current one.
Sheets == IF canvas = None THEN <<>> ELSE Append(Val(canvas).doc, Val(canvas).cur)

\* The drawImage calls of a page that draw a bleed image: one per card drawn.
CardsOn(sheet) ==
    {sheet.images[k] : k \in {j \in 1 .. Len(sheet.images) :
                                sheet.images[j].what = "bleed_img"}}

\* The discovered images: the files of a supported extension.
Discovered == Globbed(folder)
N == Cardinality(Discovered)

\* The position (from 0) of a discovered image in the sorted input order.
IndexOf(n) == Cardinality({o \in Discovered : o < n})

\* ceil(a / b)
CeilDiv(a, b) == CHOOSE q \in 0 .. a : (q - 1) * b < a /\ a <= q * b

IsBack(n) == folder[n].stem = "cardback"
HasBack == \E n \in Discovered : IsBack(n)
HasFront == \E n \in Discovered : ~IsBack(n) /\ folder[n].readable

\* A page that shows the back design and nothing else.
IsBackSheet(sheet) ==
    CardsOn(sheet) # {} /\ \A d \in CardsOn(sheet) : IsBack(d.img)

\* C3: with a back design in the folder (and a front image to print), the
\* saved document has exactly one back page after every front page, the back
\* cell of a front cell (row, col) at column cols - 1 - col of the same row;
\* without a back design there is no back page.
C3_BackPageAfterEachFront ==
    (pc = "done" /\ Val(config) = ConfigDefaults) =>
        LET doc == Val(canvas).doc
        IN  IF HasBack /\ HasFront
            THEN /\ Len(doc) % 2 = 0
                 /\ \A k \in 1 .. Len(doc) :
                       IF k % 2 = 1 THEN ~IsBackSheet(doc[k])
                       ELSE /\ IsBackSheet(doc[k])
                            /\ \A d \in CardsOn(doc[k - 1]) :
                                  \E col \in 0 .. Cols - 1 :
                                     /\ d.x = CellX(Val(config), Val(layout), col)
                                     /\ \E e \in CardsOn(doc[k]) :
                                           /\ e.y = d.y
                                           /\ e.x = CellX(Val(config), Val(layout),
                                                          Cols - 1 - col)
            ELSE HasBack \/ \A k \in 1 .. Len(doc) : ~IsBackSheet(doc[k])

\* The card of image n as generate_pdf is to draw it: on page IndexOf(n) div
\* (cols*rows), at the cell of its own index.
DrawnInPlace(n) ==
    LET k == IndexOf(n)
        cell == k % (Cols * Rows)
        sheet == Val(canvas).doc[(k \div (Cols * Rows)) + 1]
    IN  \E d \in CardsOn(sheet) :
           /\ d.img = n
           /\ d.x = CellX(Val(config), Val(layout), cell % Cols)
           /\ d.y = CellY(Val(config), Val(layout), cell \div Cols)

\* C4: an image that cannot be read is skipped and nothing else changes: at
\* the return every readable image is drawn once, at the cell and page of its
\* own index, no unreadable image is drawn, the document has
\* ceil(N / (cols*rows)) pages and is saved.
C4_UnreadableImageSkipped ==
    pc = "done" =>
        LET doc == Val(canvas).doc
        IN  /\ Val(canvas).saved
            /\ Len(doc) = CeilDiv(N, Cols * Rows)
            /\ \A n \in Discovered :
                  IF folder[n].readable
                  THEN /\ DrawnInPlace(n)
                       /\ Cardinality({<<k, d>> \in (1 .. Len(doc)) \X
                                          UNION {CardsOn(doc[j]) : j \in 1 .. Len(doc)} :
                                          d \in CardsOn(doc[k]) /\ d.img = n}) = 1
                  ELSE \A k \in 1 .. Len(doc) : \A d \in CardsOn(doc[k]) : d.img # n

\* C4's case: an unreadable image came before a readable one on the same page
\* and the document has been saved.
C4_Witness ==
    /\ pc = "done"
    /\ \E n, o \in Discovered :
          /\ n < o /\ ~folder[n].readable /\ folder[o].readable
          /\ IndexOf(n) \div (Cols * Rows) = IndexOf(o) \div (Cols * Rows)

\* C5: with no file of a supported extension in the folder, generate_pdf
\* raises before the canvas is opened: no canvas, no page, no save.
C5_NoImagesNoDocument ==
    Discovered = {} => canvas = None /\ pc \in {"generate_pdf", "raised", "exit1"}

\* C5's case: a folder holding only files that are no images has been
\* reported as an error.
C5_Witness ==
    /\ Discovered = {} /\ DOMAIN folder # {}
    /\ pc = "exit1" /\ canvas = None

\* C6: every alignment marker drawn lies inside the page (here for the
\* command line's 3 x 3 grid on A4).
C6_MarkersWithinPage ==
    (Sheets # <<>> /\ <<page_width, page_height>> = A4 /\ Cols = 3 /\ Rows = 3) =>
        \A k \in 1 .. Len(Sheets) : \A m \in Sheets[k].markers :
            /\ 0 <= m.x /\ m.x <= page_width
            /\ 0 <= m.y /\ m.y <= page_height

\* The row and column generate_pdf computed for image n.
Entry(n) == CHOOSE e \in {log[k] : k \in 1 .. Len(log)} : e.img = n

\* The quantities of the layout formula, all in points.
cardW == mm_to_points(Val(config).card_width_mm)
cardH == mm_to_points(Val(config).card_height_mm)
bleedPt == mm_to_points(Val(config).bleed_mm)
spacingPt == mm_to_points(Val(config).spacing_mm)
placedW == cardW + 2 * bleedPt
placedH == cardH + 2 * bleedPt
gridW == Cols * placedW + (Cols - 1) * spacingPt
gridH == Rows * placedH + (Rows - 1) * spacingPt

\* The configuration and page of the layout example, and its two cells.
IsExample ==
    /\ Val(config) = Config([card_width_mm |-> 100000, card_height_mm |-> 100000,
                             bleed_mm |-> 0, spacing_mm |-> 0])
    /\ <<page_width, page_height>> = SquarePage
\* The example's cells (0,0) and (2,2) drawn at (near, far) and (far, near),
\* in millimetres.
ExampleCell(d, near, far) ==
    /\ (Entry(d.img).row = 0 /\ Entry(d.img).col = 0) =>
           d.x = mm_to_points(near * Milli) /\ d.y = mm_to_points(far * Milli)
    /\ (Entry(d.img).row = 2 /\ Entry(d.img).col = 2) =>
           d.x = mm_to_points(far * Milli) /\ d.y = mm_to_points(near * Milli)

\* The layout formula for a drawn card d of a page: x = startX + col*(placedW
\* + spacing), y = startY + (rows - 1 - row)*(placedH + spacing), with startX
\* = (pageWidth - gridW)/2 and startY = (pageHeight - gridH)/2, unclamped (the
\* equations are stated doubled); the grid is centered and a higher row is
\* drawn at a smaller y.
CellFormula(sheet, d) ==
    LET row == Entry(d.img).row
        col == Entry(d.img).col
    IN  /\ 2 * d.x = (page_width - gridW) + 2 * col * (placedW + spacingPt)
        /\ 2 * d.y = (page_height - gridH)
                        + 2 * (Rows - 1 - row) * (placedH + spacingPt)
        /\ d.width = placedW /\ d.height = placedH
        /\ Val(layout).start_x = page_width - (Val(layout).start_x + gridW)
        /\ Val(layout).start_y = page_height - (Val(layout).start_y + gridH)
        /\ \A o \in CardsOn(sheet) : Entry(o.img).row > row => o.y < d.y

\* C7 as stated: every card is drawn by the layout formula, and in the
\* example (3 x 3, card 100 x 100, bleed 0, spacing 0, page 1000 x 1000) cell
\* (0,0) is at (350, 650) and cell (2,2) at (650, 350).
C7_CellOriginAsStated ==
    \A k \in 1 .. Len(Sheets) : \A d \in CardsOn(Sheets[k]) :
        /\ CellFormula(Sheets[k], d)
        /\ IsExample => ExampleCell(d, 350, 650)

\* C7, amended: every card is drawn by the layout formula, and in the example
\* cell (0,0) is at (350, 550) and cell (2,2) at (550, 350).
C7_CellOrigin ==
    \A k \in 1 .. Len(Sheets) : \A d \in CardsOn(Sheets[k]) :
        /\ CellFormula(Sheets[k], d)
        /\ IsExample => ExampleCell(d, 350, 550)

\* C7's case: the example's page has been saved with its nine cards, cell
\* (2,2) among them.
C7_Witness ==
    /\ pc = "done" /\ IsExample
    /\ \E d \in CardsOn(Val(canvas).doc[1]) :
          Entry(d.img).row = 2 /\ Entry(d.img).col = 2

\* C8: for N >= 1 images, the k-th process_image call is for the k-th image
\* of the sorted input, made on page k div (cols*rows) for the cell
\* row = (k mod (cols*rows)) div cols, col = k mod cols (k from 0); no two
\* calls share a page and cell; at the return every image has been processed
\* once, the document has ceil(N / (cols*rows)) pages, and every page before
\* the last was given cols*rows images.
C8_SortedOrderAndPaging ==
    N >= 1 =>
        /\ \A k \in 1 .. Len(log) :
              /\ log[k].img \in Discovered
              /\ IndexOf(log[k].img) = k - 1
              /\ log[k].sheet = (k - 1) \div (Cols * Rows)
              /\ log[k].row = ((k - 1) % (Cols * Rows)) \div Cols
              /\ log[k].col = (k - 1) % Cols
              /\ \A j \in 1 .. k - 1 :
                    <<log[j].sheet, log[j].row, log[j].col>>
                       # <<log[k].sheet, log[k].row, log[k].col>>
        /\ pc = "done" =>
              /\ Len(log) = N
              /\ Len(Val(canvas).doc) = CeilDiv(N, Cols * Rows)
              /\ \A s \in 0 .. Len(Val(canvas).doc) - 2 :
                    Cardinality({k \in 1 .. Len(log) : log[k].sheet = s})
                       = Cols * Rows

\* C8's case: a run of two pages or more, the last one not full and one image
\* unreadable, has returned.
C8_Witness ==
    /\ pc = "done"
    /\ Len(Val(canvas).doc) >= 2
    /\ N % (Cols * Rows) # 0
    /\ Len(log) = N
    /\ \E n \in Discovered : ~folder[n].readable

=============================================================================
